---- MODULE Spec2Model ----
(***************************************************************************)
(* Model of mc-sync (src/main.rs): a bridge between a Discord client, a    *)
(* Minecraft server subprocess and the local console.  Three producers     *)
(* (subprocess stdout reader, console stdin reader, Discord event handler) *)
(* push events into one bounded mpsc channel; the router task drains it.   *)
(*                                                                         *)
(* Text is modelled by TLC strings; a character of a string s is           *)
(* SubSeq(s, i, i).  The four regular expressions are modelled by a        *)
(* backtracking matcher with the regex crate's leftmost-first, greedy      *)
(* semantics.                                                              *)
(***************************************************************************)
EXTENDS Integers, Sequences, FiniteSets

(***************************************************************************)
(* Strings                                                                 *)
(***************************************************************************)

Char(s, i) == SubSeq(s, i, i)

\* char::is_whitespace (White_Space of Unicode): U+0009..U+000D, U+0020,
\* U+0085, U+00A0, U+1680, and U+2000..U+200A, U+2028, U+2029, U+202F,
\* U+205F, U+3000, which a TLA+ string cannot hold
WhiteSpace == {"\t", "\n", "", "\f", "\r", " ", "", " ", " "}

RECURSIVE TrimStart(_)
TrimStart(s) ==
    IF Len(s) > 0 /\ Char(s, 1) \in WhiteSpace
    THEN TrimStart(SubSeq(s, 2, Len(s)))
    ELSE s

RECURSIVE TrimEnd(_)
TrimEnd(s) ==
    IF Len(s) > 0 /\ Char(s, Len(s)) \in WhiteSpace
    THEN TrimEnd(SubSeq(s, 1, Len(s) - 1))
    ELSE s

\* str::trim
Trim(s) == TrimEnd(TrimStart(s))

Digits == <<"0", "1", "2", "3", "4", "5", "6", "7", "8", "9">>

\* Display for usize: decimal digits, no padding
RECURSIVE DisplayUsize(_)
DisplayUsize(n) ==
    IF n < 10 THEN Digits[n + 1]
    ELSE DisplayUsize(n \div 10) \o Digits[(n % 10) + 1]

\* joinery: the items of the iterator separated by sep
RECURSIVE JoinWith(_, _)
JoinWith(items, sep) ==
    IF Len(items) = 0 THEN ""
    ELSE IF Len(items) = 1 THEN items[1]
    ELSE items[1] \o sep \o JoinWith(Tail(items), sep)

(***************************************************************************)
(* Regular expressions.  A pattern is a sequence of items: a literal       *)
(* character, a greedy star over a character class, or the opening or      *)
(* closing of a capture group.  The four patterns of the program use       *)
(* nothing else.                                                           *)
(***************************************************************************)

Lit(s)   == << [t |-> "lit", c |-> s, g |-> 0] >>
Star(c)  == << [t |-> "star", c |-> c, g |-> 0] >>
Open(g)  == << [t |-> "open", c |-> "", g |-> g] >>
Close(g) == << [t |-> "close", c |-> "", g |-> g] >>

\* character classes: "."  "[^\]]"  "[^ \]]"
InClass(cls, ch) ==
    CASE cls = "."      -> ch # "\n"
      [] cls = "[^\\]]" -> ch # "]"
      [] cls = "[^ \\]]" -> ch \notin {" ", "]"}

NoMatch == [matched |-> FALSE]
NoCaps == [g \in 1..2 |-> <<1, 0>>]

Max(S) == CHOOSE m \in S : \A n \in S : n <= m
Min(S) == CHOOSE m \in S : \A n \in S : m <= n

\* length of the longest run of characters of class cls starting at s[j]
Run(cls, s, j) ==
    Min({k \in 0..(Len(s) + 1 - j) :
            j + k > Len(s) \/ ~InClass(cls, Char(s, j + k))})

RECURSIVE MatchAt(_, _, _, _, _)

\* greedy: the longest repetition after which the rest of re matches
TryStar(re, i, s, j, caps) ==
    LET rs == {<<k, MatchAt(re, i + 1, s, j + k, caps)>> :
                  k \in 0..Run(re[i].c, s, j)}
        ok == {r \in rs : r[2].matched}
    IN  IF ok = {} THEN NoMatch
        ELSE (CHOOSE r \in ok : \A q \in ok : q[1] <= r[1])[2]

\* match items i.. of re against s from position j; caps holds the
\* <<first, last>> positions of the groups closed so far
MatchAt(re, i, s, j, caps) ==
    IF i > Len(re) THEN [matched |-> TRUE, caps |-> caps]
    ELSE LET it == re[i] IN
      CASE it.t = "lit" ->
             IF j + Len(it.c) - 1 <= Len(s)
                /\ SubSeq(s, j, j + Len(it.c) - 1) = it.c
             THEN MatchAt(re, i + 1, s, j + Len(it.c), caps)
             ELSE NoMatch
        [] it.t = "open" ->
             MatchAt(re, i + 1, s, j, [caps EXCEPT ![it.g] = <<j, j - 1>>])
        [] it.t = "close" ->
             MatchAt(re, i + 1, s, j, [caps EXCEPT ![it.g] = <<caps[it.g][1], j - 1>>])
        [] it.t = "star" ->
             TryStar(re, i, s, j, caps)

\* the next start worth trying after a failure at st.  A pattern that
\* begins with ".*" and fails at st fails at every later start up to and
\* including the next "\n": the ".*" would absorb the characters between.
NextStart(re, s, st) ==
    IF re[1].t = "star" /\ re[1].c = "."
    THEN st + Run(".", s, st) + 1
    ELSE st + 1

RECURSIVE SearchFrom(_, _, _)
SearchFrom(re, s, st) ==
    IF st > Len(s) + 1 THEN NoMatch
    ELSE LET r == MatchAt(re, 1, s, st, NoCaps) IN
         IF r.matched THEN r ELSE SearchFrom(re, s, NextStart(re, s, st))

\* Regex::captures: the leftmost match, unanchored
Captures(re, s) == SearchFrom(re, s, 1)

\* captures[g]
Group(s, m, g) == SubSeq(s, m.caps[g][1], m.caps[g][2])

Prefix == Star(".") \o Lit("[Server thread/INFO]: ")

\* the join pattern without the bracketed address after the name
JOIN_NoAddress ==
    Prefix \o Open(1) \o Star(".") \o Close(1)
           \o Lit(" logged in with entity id ") \o Star(".")
           \o Lit(" at ") \o Star(".")

JOIN ==
    Prefix \o Open(1) \o Star(".") \o Close(1)
           \o Lit("[") \o Star("[^\\]]") \o Lit("]")
           \o Lit(" logged in with entity id ") \o Star(".")
           \o Lit(" at ") \o Star(".")

QUIT ==
    Prefix \o Open(1) \o Star(".") \o Close(1) \o Lit(" left the game")

ACHIEVEMENT ==
    Prefix \o Open(1) \o Star(".") \o Close(1)
           \o Lit(" has made the advancement [")
           \o Open(2) \o Star(".") \o Close(2) \o Lit("]")

MESSAGE ==
    Prefix \o Lit("<") \o Open(1) \o Star("[^ \\]]") \o Close(1) \o Lit("> ")
           \o Open(2) \o Star(".") \o Close(2)

(***************************************************************************)
(* Events and configuration                                                *)
(***************************************************************************)

\* bound of the model: number of inputs the environment delivers in a run
\* (lines of subprocess output, console lines, end of input, read errors,
\* chat messages, chat disconnections)
MaxInputs == 3

\* bound of the model: the same, in the runs under fairness
MaxLive == 3

\* bound of the model: the same, in the runs that start with a channel
\* nearly full
MaxFlood == 3

\* mpsc::channel(10)
Capacity == 10

\* opt.general_channel, opt.server_channel: two distinct channel ids
general_channel == 1
server_channel == 2

\* the author name compared against in the router
RelayName == "mc-sync"

NoEvent == [type |-> "None"]
Discord(author, content, channel_id) ==
    [type |-> "Discord", author |-> author, content |-> content,
     channel_id |-> channel_id]
Minecraft(line) == [type |-> "Minecraft", message |-> line]
Stdin(line) == [type |-> "Stdin", message |-> line]

\* lines the subprocess prints
LoginLine ==
    "[12:00:00] [Server thread/INFO]: Steve logged in with entity id 5 at (1.0, 2.0, 3.0)"
JoinSteveLine ==
    "[12:00:00] [Server thread/INFO]: Steve[/127.0.0.1:25565] logged in with entity id 5 at (1.0, 2.0, 3.0)"
JoinAliceLine ==
    "[Server thread/INFO]: Alice[/10.0.0.1:1] logged in with entity id 1 at (0, 0, 0)"
JoinBobLine ==
    "[Server thread/INFO]: Bob[/10.0.0.2:2] logged in with entity id 2 at (0, 0, 0)"
QuitAliceLine ==
    "[Server thread/INFO]: Alice left the game"
AchievementLine ==
    "[Server thread/INFO]: Bob has made the advancement [Stone Age]"
ChatLine ==
    "[12:00:00] [Server thread/INFO]: <Steve> hello world"
ChatQuitLine ==
    "[Server thread/INFO]: <Bob> hi [Server thread/INFO]: Alice left the game"

ProcessLines ==
    { LoginLine, JoinSteveLine, JoinAliceLine, JoinBobLine, QuitAliceLine,
      AchievementLine, ChatLine, ChatQuitLine }

\* lines the operator types
ConsoleLines ==
    { "!online", "[Server thread/INFO]: Alice left the game" }

\* messages users post in chat (channel 3 is neither general nor server)
ChatMessages ==
    { Discord("Steve", " !online\n", 3),
      Discord("Steve", "hi\nstop", server_channel),
      Discord(RelayName, "!online", 3) }

Tasks == {"minecraft", "stdin", "discord", "main"}
Sources == {"minecraft", "stdin"}
Producers == {"minecraft", "stdin", "discord"}

VARIABLES
    rx,        \* events buffered in the channel, oldest first
    waiters,   \* the calls of tx.send() suspended on a channel without a
               \* free permit, in the order in which they suspended, each
               \* with its producer and its event
    task,      \* per spawned task: "running", "ok" (returned Ok) or "err"
    sessions,  \* number of times the discord task has called discord.start()
    returned,  \* "no", or how main() returned: "ok" / "err"
    reading,   \* a read of the console is in flight on a blocking thread
    writing,   \* a write to the console is in flight on a blocking thread
    exited,    \* the runtime is shut down: the process has ended
    online,    \* the HashSet of player names
    inserted,  \* history: the names in online, in the order of insertion
    last,      \* the event received last and what the router did for it
    hist,      \* history: arrival numbers of the events, first task to
               \* finish, task whose result main() returned, names last
               \* seen joining
    inputs     \* number of inputs the environment has still to deliver

vars ==
    <<rx, waiters, task, sessions, returned, reading, writing, exited,
      online, inserted, last, hist, inputs>>

(***************************************************************************)
(* The router's reaction to one event: the sequence of steps it performs,  *)
(* in program order.  "write", "flush" and "send" are output calls (each   *)
(* is followed by `?`); "insert" and "remove" act on the HashSet.          *)
(* child_stdin and stdout are BufWriters: what is written reaches the      *)
(* subprocess or the console when the writer is flushed.                   *)
(***************************************************************************)

\* taken: for a completed write_all, the number of bytes of the text that
\* the sink took within the call (the rest is in the buffer)
Write(to, text) ==
    [op |-> "write", to |-> to, channel |-> 0, text |-> text, taken |-> 0]
Flush(to) ==
    [op |-> "flush", to |-> to, channel |-> 0, text |-> "", taken |-> 0]
Send(channel, text) ==
    [op |-> "send", to |-> "discord", channel |-> channel, text |-> text,
     taken |-> 0]
Insert(name) ==
    [op |-> "insert", to |-> "online", channel |-> 0, text |-> name,
     taken |-> 0]
Remove(name) ==
    [op |-> "remove", to |-> "online", channel |-> 0, text |-> name,
     taken |-> 0]

\* capacity of the buffer of BufWriter::new
BufCapacity == 8192

\* BufWriter `to` after the completed steps: what its sink has received and
\* what its buffer holds.  write_all flushes the buffer first when the text
\* does not fit behind it; a text shorter than the capacity is copied into
\* the buffer; a text of the capacity or more is handed to the sink, which
\* takes what it takes of it, again and again until the rest is shorter
\* than the capacity, and that rest is copied into the buffer: the sink has
\* the first `taken` bytes, the buffer the others.  flush passes the buffer
\* to the sink.
RECURSIVE Writer(_, _, _)
Writer(steps, to, w) ==
    IF steps = << >> THEN w
    ELSE LET st == Head(steps)
             room == IF Len(w.buf) + Len(st.text) > BufCapacity
                     THEN [sink |-> w.sink \o w.buf, buf |-> ""] ELSE w
         IN  Writer(Tail(steps), to,
                CASE st.op = "flush" /\ st.to = to ->
                        [sink |-> w.sink \o w.buf, buf |-> ""]
                  [] st.op = "write" /\ st.to = to ->
                        IF Len(st.text) >= BufCapacity
                        THEN [sink |-> room.sink
                                         \o SubSeq(st.text, 1, st.taken),
                              buf |-> room.buf
                                        \o SubSeq(st.text, st.taken + 1,
                                                  Len(st.text))]
                        ELSE [sink |-> room.sink, buf |-> room.buf \o st.text]
                  [] OTHER -> w)

Buffered(steps, to) == Writer(steps, to, [sink |-> "", buf |-> ""]).buf

\* the numbers of bytes of its text a write_all can have handed to the sink
\* when it returns Ok: none of a text shorter than the capacity; of a longer
\* one, what the sink took in one or more writes, each of one byte or more,
\* the last of them begun with the capacity or more still to write
Taken(step) ==
    IF step.op = "write" /\ Len(step.text) >= BufCapacity
    THEN {k \in 1..Len(step.text) : Len(step.text) - k < BufCapacity}
    ELSE {0}

\* what the completed call has passed to the sink of its BufWriter, after
\* the completed steps `done`
Outgoing(done, step) ==
    CASE step.op = "flush" -> Buffered(done, step.to)
      [] step.op = "write" ->
            (IF Len(Buffered(done, step.to)) + Len(step.text) > BufCapacity
             THEN Buffered(done, step.to) ELSE "")
            \o (IF Len(step.text) >= BufCapacity
                THEN SubSeq(step.text, 1, step.taken) ELSE "")
      [] OTHER -> ""

\* the call does input/output: the router is suspended in it until it
\* returns, and `?` ends the router when it returns an error.  A write_all
\* that only copies into the buffer returns at once and cannot fail.
Fallible(done, step) ==
    \/ step.op \in {"flush", "send"}
    \/ step.op = "write" /\
         (\/ Len(Buffered(done, step.to)) + Len(step.text) > BufCapacity
          \/ Len(step.text) >= BufCapacity)

\* the parts of `text` from its start
Cuts(text) == {SubSeq(text, 1, k) : k \in 0..Len(text)}

\* what the sink of BufWriter `to` can have received for an event whose arm
\* has completed the steps `done` and has the steps `todo` left.  The first
\* step of `todo` is the call the router is suspended in, or the call that
\* failed, or the call in which the router was dropped: the sink takes
\* what that call passes piece by piece, before the call returns, so it
\* can hold any part of it, whether the call then returns Ok, returns an
\* error or never returns.
Reached(done, todo, to) ==
    IF todo # << >> /\ Head(todo).op \in {"write", "flush"}
                   /\ Head(todo).to = to
    THEN {Writer(done, to, [sink |-> "", buf |-> ""]).sink \o part :
             part \in Cuts(Outgoing(done,
                       [Head(todo) EXCEPT !.taken = Len(Head(todo).text)]))}
    ELSE {Writer(done, to, [sink |-> "", buf |-> ""]).sink}

\* the steps the router performs without being suspended, from `todo` on
RECURSIVE Sync(_, _)
Sync(done, todo) ==
    IF todo = << >> \/ Fallible(done, Head(todo))
    THEN [done |-> done, todo |-> todo]
    ELSE Sync(Append(done, Head(todo)), Tail(todo))

\* the orders in which online.iter() can yield the elements of the set:
\* the hasher of HashSet::new() is seeded at random
Iter(set) ==
    {f \in [1..Cardinality(set) -> set] :
        \A i, j \in 1..Cardinality(set) : i # j => f[i] # f[j]}

\* compares the wrong field
IsSelf_WrongField(message) == message.content = RelayName

IsSelf(message) == message.author = RelayName

IsOnlineCommand(message) == Trim(message.content) = "!online"

\* separator without the space
OnlineReply_Comma(names) ==
    DisplayUsize(Len(names)) \o " online: " \o JoinWith(names, ",")

\* format!("{} online: {}", online.len(), online.iter().join_with(", "))
OnlineReply(names) ==
    DisplayUsize(Len(names)) \o " online: " \o JoinWith(names, ", ")

\* format!("/say [{}]: {}\n", message.author.name, message.content)
Say(message) ==
    "/say [" \o message.author \o "]: " \o message.content \o "\n"

\* replies on the general channel instead of the channel of the message
DiscordArm_ReplyGeneral(message, names) ==
    IF IsSelf(message) THEN << >>
    ELSE IF IsOnlineCommand(message)
         THEN << Send(general_channel, OnlineReply(names)) >>
         ELSE << Write("child_stdin", Say(message)), Flush("child_stdin") >>

\* forgets to flush child_stdin
DiscordArm_NoFlush(message, names) ==
    IF IsSelf(message) THEN << >>
    ELSE IF IsOnlineCommand(message)
         THEN << Send(message.channel_id, OnlineReply(names)) >>
         ELSE << Write("child_stdin", Say(message)) >>

DiscordArm(message, names) ==
    IF IsSelf(message) THEN << >>
    ELSE IF IsOnlineCommand(message)
         THEN << Send(message.channel_id, OnlineReply(names)) >>
         ELSE << Write("child_stdin", Say(message)), Flush("child_stdin") >>

\* forgets online.insert
JoinArm_NoInsert(name) ==
    << Send(general_channel, name \o " joined the server!") >>

\* online.insert(captures[1]); format!("{} joined the server!", ..)
JoinArm(name) ==
    << Insert(name), Send(general_channel, name \o " joined the server!") >>

\* forgets online.remove
QuitArm_NoRemove(name) ==
    << Send(general_channel, name \o " left the server.") >>

\* online.remove(&captures[1]); format!("{} left the server.", ..)
QuitArm(name) ==
    << Remove(name), Send(general_channel, name \o " left the server.") >>

\* format!("{} unlocked achievement [{}]!", ..)
AchievementArm(name, achievement) ==
    << Send(general_channel,
            name \o " unlocked achievement [" \o achievement \o "]!") >>

\* keeps the angle brackets of the log line
ChatArm_Angle(name, body) ==
    << Send(general_channel, "<" \o name \o "> " \o body) >>

\* format!("[{}]: {}", ..)
ChatArm(name, body) ==
    << Send(general_channel, "[" \o name \o "]: " \o body) >>

\* tries the chat pattern before the other three
Translate_ChatFirst(message) ==
    LET join == Captures(JOIN, message)
        quit == Captures(QUIT, message)
        achievement == Captures(ACHIEVEMENT, message)
        chat == Captures(MESSAGE, message)
    IN  IF chat.matched THEN
            ChatArm(Group(message, chat, 1), Group(message, chat, 2))
        ELSE IF join.matched THEN JoinArm(Group(message, join, 1))
        ELSE IF quit.matched THEN QuitArm(Group(message, quit, 1))
        ELSE IF achievement.matched THEN
            AchievementArm(Group(message, achievement, 1),
                           Group(message, achievement, 2))
        ELSE << >>

\* the if / else-if chain over the four patterns; an unmatched line ends
\* the arm (`continue`)
Translate(message) ==
    LET join == Captures(JOIN, message)
        quit == Captures(QUIT, message)
        achievement == Captures(ACHIEVEMENT, message)
        chat == Captures(MESSAGE, message)
    IN  IF join.matched THEN JoinArm(Group(message, join, 1))
        ELSE IF quit.matched THEN QuitArm(Group(message, quit, 1))
        ELSE IF achievement.matched THEN
            AchievementArm(Group(message, achievement, 1),
                           Group(message, achievement, 2))
        ELSE IF chat.matched THEN
            ChatArm(Group(message, chat, 1), Group(message, chat, 2))
        ELSE << >>

\* Translate over the lines of the model, computed once
Translated == [line \in ProcessLines |-> Translate(line)]

\* classifies first and leaves the arm before the echo of an unmatched line
MinecraftArm_SkipUnmatched(message) ==
    IF Translated[message] = << >> THEN << >>
    ELSE << Write("stdout", message), Write("stdout", "\n"), Flush("stdout"),
            Send(server_channel, message) >>
         \o Translated[message]

\* classifies and notifies before the echo and the server-channel send
MinecraftArm_UpdateFirst(message) ==
    Translated[message]
    \o << Write("stdout", message), Write("stdout", "\n"), Flush("stdout"),
          Send(server_channel, message) >>

MinecraftArm(message) ==
    << Write("stdout", message), Write("stdout", "\n"), Flush("stdout"),
       Send(server_channel, message) >>
    \o Translated[message]

\* forgets message.push('\n')
StdinArm_NoNewline(message) ==
    << Write("child_stdin", message), Flush("child_stdin") >>

\* classifies the console line as if the subprocess had printed it
StdinArm_Classify(message) ==
    << Write("child_stdin", message \o "\n"), Flush("child_stdin") >>
    \o Translate(message)

StdinArm(message) ==
    << Write("child_stdin", message \o "\n"), Flush("child_stdin") >>

Steps(event, names) ==
    CASE event.type = "Discord"   -> DiscordArm(event, names)
      [] event.type = "Minecraft" -> MinecraftArm(event.message)
      [] event.type = "Stdin"     -> StdinArm(event.message)

\* the HashSet after the performed steps
RECURSIVE Apply(_, _)
Apply(set, steps) ==
    IF steps = << >> THEN set
    ELSE LET st == Head(steps) IN
         Apply(CASE st.op = "insert" -> set \cup {st.text}
                 [] st.op = "remove" -> set \ {st.text}
                 [] OTHER -> set,
               Tail(steps))

\* the insertion order after the performed steps
RECURSIVE ApplyOrder(_, _)
ApplyOrder(names, steps) ==
    IF steps = << >> THEN names
    ELSE LET st == Head(steps)
             Other(n) == n # st.text
             In(n) == n = st.text
         IN  ApplyOrder(
               CASE st.op = "insert" /\ SelectSeq(names, In) = << >> ->
                        Append(names, st.text)
                 [] st.op = "remove" -> SelectSeq(names, Other)
                 [] OTHER -> names,
               Tail(steps))

RECURSIVE Concat(_)
Concat(texts) ==
    IF texts = << >> THEN "" ELSE Head(texts) \o Concat(Tail(texts))

\* what the sink of BufWriter `to` has received by the completed steps
Received(steps, to) == Writer(steps, to, [sink |-> "", buf |-> ""]).sink

\* the messages sent by the performed steps, as <<channel, content>>
Sent(steps) ==
    LET IsSend(st) == st.op = "send"
        sends == SelectSeq(steps, IsSend)
    IN  [i \in 1..Len(sends) |-> <<sends[i].channel, sends[i].text>>]

(***************************************************************************)
(* Actions.  The runtime is single-threaded (flavor = "current_thread"):   *)
(* a task runs from one suspension point to the next without interleaving, *)
(* so a producer that finds room in the channel enqueues in the same step  *)
(* in which it received its input.                                         *)
(***************************************************************************)

\* event: the event received last; before: the presence set when it was
\* received; done: the steps of its arm completed so far; todo: the steps that
\* remain, the first of them being the call the router is suspended in
\* (busy), or the call that failed (failed)
NoDispatch ==
    [event |-> NoEvent, before |-> {}, done |-> << >>, todo |-> << >>,
     busy |-> FALSE, failed |-> FALSE]

\* arrived: number of events that have entered the channel; tickets: the
\* arrival numbers of the events in rx, in the order of rx; dispatched: the
\* arrival numbers of the events the router has received, in that order;
\* first: the task that finished first; reported: the task whose result
\* main() returned; recent: the names whose last classified join or quit
\* line was a join; resumed: number of suspended sends that have completed
\* with their event in the channel
NoHistory ==
    [arrived |-> 0, tickets |-> << >>, dispatched |-> << >>,
     first |-> "none", reported |-> "none", recent |-> {}, resumed |-> 0]

\* an event enters the channel and gets the next arrival number
Arrive(h) ==
    [h EXCEPT !.arrived = @ + 1, !.tickets = Append(@, h.arrived + 1)]

\* task t finishes
Finished(h, t) == IF h.first = "none" THEN [h EXCEPT !.first = t] ELSE h

\* producers with a call suspended in tx.send()
Waiting == {waiters[i].from : i \in 1..Len(waiters)}

\* Stdin::start waits in lines.next_line(): tokio's Stdin has handed the
\* read of the console to a thread of the blocking pool
ReadsConsole(tasks, suspended) ==
    /\ tasks["stdin"] = "running"
    /\ \A i \in 1..Len(suspended) : suspended[i].from # "stdin"

\* the router waits in a call on stdout: tokio's Stdout has handed the
\* bytes that leave the BufWriter to a thread of the blocking pool, and the
\* call returns when that thread has written them
WritesConsole(dispatch) ==
    /\ dispatch.busy
    /\ Head(dispatch.todo).to = "stdout"

Init ==
    /\ rx = << >>
    /\ waiters = << >>
    /\ task = [t \in Tasks |-> "running"]
    /\ sessions = 1
    /\ returned = "no"
    /\ reading = TRUE
    /\ writing = FALSE
    /\ exited = FALSE
    /\ online = {}
    /\ inserted = << >>
    /\ last = NoDispatch
    /\ hist = NoHistory
    /\ inputs = MaxInputs

\* a channel that hands out the newest event first
Enqueue_Front(event) ==
    /\ rx' = <<event>> \o rx
    /\ hist' = [hist EXCEPT !.arrived = @ + 1,
                            !.tickets = <<hist.arrived + 1>> \o @]

\* the event enters the channel, behind the events already in it
Enqueue(event) ==
    /\ rx' = Append(rx, event)
    /\ hist' = Arrive(hist)

\* tx.send(event).await by producer p: an error when the router has ended
\* (the receiver is dropped), suspension behind the calls already
\* suspended when the channel has no free permit (it is full, or its free
\* slots are promised to the calls already suspended), else the event is
\* appended.  On the error a line source returns it from start(); the
\* Discord handler panics inside its own call.
TxSend(p, event) ==
    IF task["main"] # "running" THEN
        /\ task' = IF p \in Sources THEN [task EXCEPT ![p] = "err"] ELSE task
        /\ hist' = IF p \in Sources THEN Finished(hist, p) ELSE hist
        /\ UNCHANGED <<rx, waiters>>
    ELSE IF Len(rx) + Len(waiters) >= Capacity THEN
        /\ waiters' = Append(waiters, [from |-> p, event |-> event])
        /\ UNCHANGED <<rx, task, hist>>
    ELSE
        /\ Enqueue(event)
        /\ UNCHANGED <<waiters, task>>

Wrap(p, line) == IF p = "minecraft" THEN Minecraft(line) ELSE Stdin(line)

Lines(p) == IF p = "minecraft" THEN ProcessLines ELSE ConsoleLines

\* Minecraft::start / Stdin::start: lines.next_line() yields a line, which
\* is sent as an event
NextLine(p, line) ==
    /\ returned = "no" /\ task[p] = "running"
    /\ p \notin Waiting
    /\ inputs > 0
    /\ TxSend(p, Wrap(p, line))
    /\ reading' = ReadsConsole(task', waiters')
    /\ inputs' = inputs - 1
    /\ UNCHANGED <<sessions, online, inserted, last, returned, writing,
                   exited>>

\* lines.next_line() yields None: the stream has ended, start() returns Ok
NextLineNone(p) ==
    /\ returned = "no" /\ task[p] = "running"
    /\ p \notin Waiting
    /\ inputs > 0
    /\ task' = [task EXCEPT ![p] = "ok"]
    /\ hist' = Finished(hist, p)
    /\ reading' = ReadsConsole(task', waiters)
    /\ inputs' = inputs - 1
    /\ UNCHANGED <<rx, waiters, sessions, online, inserted, last, returned,
                   writing, exited>>

\* lines.next_line() fails (read error, invalid UTF-8): start() returns Err
NextLineErr(p) ==
    /\ returned = "no" /\ task[p] = "running"
    /\ p \notin Waiting
    /\ inputs > 0
    /\ task' = [task EXCEPT ![p] = "err"]
    /\ hist' = Finished(hist, p)
    /\ reading' = ReadsConsole(task', waiters)
    /\ inputs' = inputs - 1
    /\ UNCHANGED <<rx, waiters, sessions, online, inserted, last, returned,
                   writing, exited>>

\* the messages the chat service delivers: those of users, and those the
\* router has just sent, coming back under the router's own name
Delivered ==
    ChatMessages \cup
    {Discord(RelayName, Sent(last.done)[k][2], Sent(last.done)[k][1]) :
        k \in 1..Len(Sent(last.done))}

\* Discord::message: the client of the discord task calls the handler with
\* a message, and the call sends it; calls run side by side, so that a
\* call can start while earlier ones are suspended in send()
DiscordMessage(message) ==
    /\ returned = "no"
    /\ task["discord"] = "running"
    /\ inputs > 0
    /\ TxSend("discord", message)
    /\ inputs' = inputs - 1
    /\ UNCHANGED <<sessions, online, inserted, last, returned, reading,
                   writing, exited>>

\* a send that drops its event when the channel was full
Unblock_Lost ==
    /\ returned = "no"
    /\ waiters # << >>
    /\ waiters' = Tail(waiters)
    /\ reading' = ReadsConsole(task, waiters')
    /\ UNCHANGED <<rx, task, sessions, online, inserted, last, hist, inputs,
                   returned, writing, exited>>

\* the suspended tx.send() that has waited longest completes (the permits
\* of the channel go to the suspended calls in the order in which they
\* suspended): with the error when the router has ended, with the event
\* appended when the channel has room again
Unblock ==
    /\ returned = "no"
    /\ waiters # << >>
    /\ LET p == Head(waiters).from IN
       IF task["main"] # "running" THEN
            /\ task' = IF p \in Sources THEN [task EXCEPT ![p] = "err"] ELSE task
            /\ hist' = IF p \in Sources THEN Finished(hist, p) ELSE hist
            /\ rx' = rx
       ELSE
            /\ Len(rx) < Capacity
            /\ rx' = Append(rx, Head(waiters).event)
            /\ hist' = [Arrive(hist) EXCEPT !.resumed = @ + 1]
            /\ task' = task
    /\ waiters' = Tail(waiters)
    /\ reading' = ReadsConsole(task', waiters')
    /\ UNCHANGED <<sessions, online, inserted, last, inputs, returned,
                   writing, exited>>

\* a discord task that returns the error of discord.start()
DiscordRestart_Fatal ==
    /\ returned = "no"
    /\ task["discord"] = "running"
    /\ inputs > 0
    /\ sessions' = sessions + 1
    /\ inputs' = inputs - 1
    /\ task' = [task EXCEPT !["discord"] = "err"]
    /\ UNCHANGED <<rx, waiters, online, inserted, last, hist, returned,
                   reading, writing, exited>>

\* the discord task: discord.start() returns (disconnection), the result is
\* discarded and the loop calls it again
DiscordRestart ==
    /\ returned = "no"
    /\ task["discord"] = "running"
    /\ inputs > 0
    /\ sessions' = sessions + 1
    /\ inputs' = inputs - 1
    /\ UNCHANGED <<rx, waiters, task, online, inserted, last, hist, returned,
                   reading, writing, exited>>

\* the discord task is aborted: discord.start() panics, the handle of the
\* task yields a JoinError and the client is dropped with the task, so
\* that the handler is called no more
DiscordAbort ==
    /\ returned = "no"
    /\ task["discord"] = "running"
    /\ inputs > 0
    /\ task' = [task EXCEPT !["discord"] = "err"]
    /\ hist' = Finished(hist, "discord")
    /\ inputs' = inputs - 1
    /\ UNCHANGED <<rx, waiters, sessions, online, inserted, last, returned,
                   reading, writing, exited>>

\* the result of the router task after an arm: `?` returns the error of a
\* failed output call, else the loop goes on
RouterResult(failed) == IF failed THEN "err" ELSE "running"

\* the outcome of the four patterns on each line of the model
Matches ==
    [line \in ProcessLines |->
        [join |-> Captures(JOIN, line), quit |-> Captures(QUIT, line),
         achievement |-> Captures(ACHIEVEMENT, line),
         chat |-> Captures(MESSAGE, line)]]

Kind(line) ==
    IF Matches[line].join.matched THEN "join"
    ELSE IF Matches[line].quit.matched THEN "quit"
    ELSE IF Matches[line].achievement.matched THEN "achievement"
    ELSE IF Matches[line].chat.matched THEN "chat"
    ELSE "unrecognized"

\* the names whose last classified join or quit line was a join, after a
\* dispatch that performed the steps `done`: a line is classified once the
\* four steps before the classification are done
Recent(names, event, done) ==
    IF event.type # "Minecraft" \/ Len(done) < 4 THEN names
    ELSE LET line == event.message IN
         CASE Kind(line) = "join" ->
                names \cup {Group(line, Matches[line].join, 1)}
           [] Kind(line) = "quit" ->
                names \ {Group(line, Matches[line].quit, 1)}
           [] OTHER -> names

\* a router that waits for two events before it receives one
Ready_Batch(queue) == Len(queue) >= 2

\* rx.recv() returns as soon as the channel holds an event
Ready(queue) == queue # << >>

\* the router task: rx.recv() yields the oldest event and the match arm for
\* it starts: the router performs its steps up to the first call that
\* suspends it.
Recv ==
    /\ returned = "no"
    /\ task["main"] = "running"
    /\ ~last.busy
    /\ Ready(rx)
    /\ \E names \in Iter(online) :
         LET r == Sync(<< >>, Steps(Head(rx), names)) IN
         /\ online' = Apply(online, r.done)
         /\ inserted' = ApplyOrder(inserted, r.done)
         /\ last' = [event |-> Head(rx), before |-> online,
                     done |-> r.done, todo |-> r.todo,
                     busy |-> r.todo # << >>, failed |-> FALSE]
         /\ hist' = [hist EXCEPT
                       !.tickets = Tail(@),
                       !.recent = Recent(@, Head(rx), r.done),
                       !.dispatched = Append(@, Head(hist.tickets))]
    /\ rx' = Tail(rx)
    /\ writing' = WritesConsole(last')
    /\ UNCHANGED <<waiters, task, sessions, inputs, returned, reading,
                   exited>>

\* the router task: the call it is suspended in returns.  On Ok the router
\* goes on to the next call that suspends it or to the end of the arm; on
\* Err `?` ends the task with the error.
Return ==
    /\ returned = "no"
    /\ last.busy
    /\ \E failed \in BOOLEAN, taken \in Taken(Head(last.todo)) :
         LET call == [Head(last.todo) EXCEPT !.taken = taken]
             r == Sync(Append(last.done, call), Tail(last.todo))
             new == SubSeq(r.done, Len(last.done) + 1, Len(r.done))
         IN  IF failed THEN
                 /\ last' = [last EXCEPT !.busy = FALSE, !.failed = TRUE]
                 /\ task' = [task EXCEPT !["main"] = RouterResult(TRUE)]
                 /\ hist' = IF RouterResult(TRUE) = "running"
                            THEN hist ELSE Finished(hist, "main")
                 /\ UNCHANGED <<online, inserted>>
             ELSE
                 /\ online' = Apply(online, new)
                 /\ inserted' = ApplyOrder(inserted, new)
                 /\ last' = [last EXCEPT !.done = r.done, !.todo = r.todo,
                                         !.busy = r.todo # << >>]
                 /\ task' = [task EXCEPT !["main"] = RouterResult(FALSE)]
                 /\ hist' = [hist EXCEPT
                               !.recent = Recent(@, last.event, r.done)]
    /\ writing' = WritesConsole(last')
    /\ UNCHANGED <<rx, waiters, sessions, inputs, returned, reading,
                   exited>>

\* every sender is dropped: the two readers have finished, the client of
\* the discord task is gone and no call of the handler is suspended
Closed ==
    /\ waiters = << >>
    /\ \A t \in {"minecraft", "stdin", "discord"} : task[t] # "running"

\* the router task: rx.recv() yields None, the channel being empty and
\* closed; the loop ends and the task returns Ok
RecvNone ==
    /\ returned = "no"
    /\ task["main"] = "running"
    /\ ~last.busy
    /\ rx = << >>
    /\ Closed
    /\ task' = [task EXCEPT !["main"] = "ok"]
    /\ hist' = Finished(hist, "main")
    /\ UNCHANGED <<rx, waiters, sessions, online, inserted, last, inputs,
                   returned, reading, writing, exited>>

\* tokio::select! in main(): the handles of the finished tasks are ready,
\* select! takes one of the ready branches at random and main() returns
\* the result of that task.  The runtime of #[tokio::main] is then dropped:
\* the other tasks are dropped where they are suspended, the router
\* possibly inside an arm.
Select ==
    /\ returned = "no"
    /\ \E t \in Tasks :
         /\ task[t] # "running"
         /\ returned' = task[t]
         /\ hist' = [hist EXCEPT !.reported = t]
    /\ UNCHANGED <<rx, waiters, task, sessions, online, inserted, last,
                   inputs, reading, writing, exited>>

\* the drop of the runtime ends, and with it the process: the drop waits
\* for the threads of the blocking pool, so it ends at once when neither a
\* read of the console nor a write to it is in flight
Exit ==
    /\ returned # "no"
    /\ ~reading
    /\ ~writing
    /\ ~exited
    /\ exited' = TRUE
    /\ UNCHANGED <<rx, waiters, task, sessions, returned, reading, writing,
                   online, inserted, last, hist, inputs>>

\* the console delivers a line, its end or an error after main() has
\* returned: the read in flight on the blocking thread returns, to no
\* task, and the drop of the runtime, which was waiting for it, ends
\* unless it waits for a write as well
ReadReturns ==
    /\ returned # "no"
    /\ reading
    /\ reading' = FALSE
    /\ exited' = ~writing
    /\ UNCHANGED <<rx, waiters, task, sessions, returned, writing, online,
                   inserted, last, hist, inputs>>

\* the console takes the output, or refuses it, after main() has returned:
\* the write in flight on the blocking thread returns, to no task (the
\* router was dropped inside the call), and the drop of the runtime, which
\* was waiting for it, ends unless it waits for a read as well
WriteReturns ==
    /\ returned # "no"
    /\ writing
    /\ writing' = FALSE
    /\ exited' = ~reading
    /\ UNCHANGED <<rx, waiters, task, sessions, returned, reading, online,
                   inserted, last, hist, inputs>>

Next ==
    \/ \E p \in Sources : \E line \in Lines(p) : NextLine(p, line)
    \/ \E p \in Sources : NextLineNone(p)
    \/ \E p \in Sources : NextLineErr(p)
    \/ \E message \in Delivered : DiscordMessage(message)
    \/ DiscordRestart
    \/ DiscordAbort
    \/ Recv
    \/ Return
    \/ RecvNone
    \/ Select
    \/ ReadReturns
    \/ WriteReturns
    \/ Exit

Spec == Init /\ [][Next]_vars

\* The runs under fairness, over fewer inputs: a join line, a quit line
\* and an unrecognized line of the subprocess, a console line, the !online
\* command and a message to forward.
LiveLines(p) ==
    IF p = "minecraft" THEN {JoinAliceLine, QuitAliceLine, LoginLine}
    ELSE {"!online"}

LiveMessages ==
    {Discord("Steve", " !online\n", 3), Discord("Steve", "hi\nstop", server_channel)}

LiveInit ==
    /\ rx = << >>
    /\ waiters = << >>
    /\ task = [t \in Tasks |-> "running"]
    /\ sessions = 1
    /\ returned = "no"
    /\ reading = TRUE
    /\ writing = FALSE
    /\ exited = FALSE
    /\ online = {}
    /\ inserted = << >>
    /\ last = NoDispatch
    /\ hist = NoHistory
    /\ inputs = MaxLive

LiveNext ==
    \/ \E p \in Sources : \E line \in LiveLines(p) : NextLine(p, line)
    \/ \E p \in Sources : NextLineNone(p)
    \/ \E p \in Sources : NextLineErr(p)
    \/ \E message \in LiveMessages : DiscordMessage(message)
    \/ DiscordRestart
    \/ DiscordAbort
    \/ Recv
    \/ Return
    \/ RecvNone
    \/ Select
    \/ ReadReturns
    \/ WriteReturns
    \/ Exit

\* The current_thread runtime polls every task that was woken: the router
\* when an event is in the channel, and main() when one of the handles it
\* selects on has finished; the drop of the runtime ends when no blocking
\* thread is at work.  Nothing obliges the environment: neither the inputs
\* to come, nor an output call in progress to return, nor the channel to
\* close.
LiveFair ==
    /\ LiveInit
    /\ [][LiveNext]_vars
    /\ WF_vars(Recv)
    /\ WF_vars(Select)
    /\ WF_vars(Exit)

\* The runs with a channel nearly full: the subprocess has printed
\* Capacity - 1 lines before the router first ran, and a few inputs follow.
FloodLine == LoginLine
FloodConsoleLine == "!online"
FloodMessage == Discord("Steve", "hi\nstop", server_channel)

FloodInit ==
    /\ rx = [i \in 1..(Capacity - 1) |-> Minecraft(FloodLine)]
    /\ waiters = << >>
    /\ task = [t \in Tasks |-> "running"]
    /\ sessions = 1
    /\ returned = "no"
    /\ reading = TRUE
    /\ writing = FALSE
    /\ exited = FALSE
    /\ online = {}
    /\ inserted = << >>
    /\ last = NoDispatch
    /\ hist = [NoHistory EXCEPT !.arrived = Capacity - 1,
                                !.tickets = [i \in 1..(Capacity - 1) |-> i]]
    /\ inputs = MaxFlood

FloodNext ==
    \/ NextLine("minecraft", FloodLine)
    \/ NextLine("stdin", FloodConsoleLine)
    \/ \E p \in Sources : NextLineNone(p)
    \/ DiscordMessage(FloodMessage)
    \/ Unblock
    \/ Recv
    \/ Return
    \/ Select
    \/ ReadReturns
    \/ WriteReturns
    \/ Exit

FloodSpec == FloodInit /\ [][FloodNext]_vars

\* As in LiveFair; besides, the suspended sender that has waited longest
\* is woken when the channel has room for its event or is closed.
FloodFair ==
    /\ FloodSpec
    /\ WF_vars(Recv)
    /\ WF_vars(Select)
    /\ WF_vars(Exit)
    /\ WF_vars(Unblock)

TypeOK ==
    /\ Len(rx) <= Capacity
    /\ returned \in {"no", "ok", "err"}
    /\ reading \in BOOLEAN /\ writing \in BOOLEAN /\ exited \in BOOLEAN
    /\ returned = "no" => (/\ ~exited
                          /\ reading = ReadsConsole(task, waiters)
                          /\ writing = WritesConsole(last))
    /\ exited => (~reading /\ ~writing)
    /\ inputs \in Nat

(***************************************************************************)
(* Properties.  They are stated on `last`: the event the router received   *)
(* last, the HashSet before it (last.before), the steps performed for it   *)
(* so far (last.done), those still to come (last.todo), whether an output  *)
(* call is in progress (last.busy) or has failed (last.failed); `online`   *)
(* is the HashSet as it is now.                                            *)
(***************************************************************************)

Range(seq) == {seq[i] : i \in 1..Len(seq)}

\* the messages sent to one channel by the performed steps
SentTo(steps, channel) ==
    LET ToChannel(m) == m[1] = channel IN SelectSeq(Sent(steps), ToChannel)

\* the steps up to and including the server-channel send were performed
PastServerSend == Len(last.done) >= 4

\* the arm of the last event has run to its end
Completed == ~last.busy /\ ~last.failed

\* what the sink of BufWriter `to` can have received for the last event
Sinks(to) == Reached(last.done, last.todo, to)

\* C1: a chat message whose author is "mc-sync" has no effect at all: no
\* step is performed for it (nothing written to subprocess stdin or to the
\* console, nothing sent), no call fails and the presence set is unchanged.
\* The router's own posts come back under that name, so none of them
\* reaches subprocess stdin.
C1_AntiLoop ==
    (last.event.type = "Discord" /\ last.event.author = "mc-sync") =>
        /\ last.done = << >> /\ last.todo = << >>
        /\ Completed
        /\ Sinks("child_stdin") = {""} /\ Sinks("stdout") = {""}
        /\ online = last.before

C1_Witness ==
    /\ last.event.type = "Discord" /\ last.event.author = "mc-sync"
    /\ Trim(last.event.content) = "!online"
    /\ last.before # {}

\* C2: for a subprocess line whose arm has run to its end without an I/O
\* error, the console has received exactly the line followed by a
\* newline, and exactly one message was sent to the server channel, whose
\* content is the line.  Before that, and when a call fails or main()
\* returns inside the arm, the console has received a part of that text and
\* the server channel that message or none.
C2_RawForward ==
    last.event.type = "Minecraft" =>
        /\ Sinks("stdout") \subseteq Cuts(last.event.message \o "\n")
        /\ SentTo(last.done, server_channel)
             \in {<< >>, << <<server_channel, last.event.message>> >>}
        /\ Completed =>
             /\ Sinks("stdout") = {last.event.message \o "\n"}
             /\ SentTo(last.done, server_channel)
                  = << <<server_channel, last.event.message>> >>

C2_Witness ==
    /\ last.event = Minecraft(LoginLine)
    /\ Completed
    /\ Len(Sent(last.done)) = 1

\* C3 as stated: the line "... Steve logged in with entity id 5 at ..."
\* inserts "Steve" and sends "Steve joined the server!" to general.
C3_Original ==
    (last.event = Minecraft(LoginLine) /\ Completed) =>
        /\ "Steve" \in online
        /\ SentTo(last.done, general_channel)
             = << <<general_channel, "Steve joined the server!">> >>

\* C3 amended: the line is a join only with the bracketed address after
\* the name ("Steve[/127.0.0.1:25565] logged in ..."): then "Steve" is
\* inserted and "Steve joined the server!" is sent to general.  The line
\* without it matches no pattern: presence is unchanged and nothing is sent
\* to general.
C3_Join ==
    /\ (last.event = Minecraft(JoinSteveLine) /\ Completed) =>
          /\ online = last.before \cup {"Steve"}
          /\ SentTo(last.done, general_channel)
               = << <<general_channel, "Steve joined the server!">> >>
    /\ (last.event = Minecraft(LoginLine) /\ Completed) =>
          /\ online = last.before
          /\ SentTo(last.done, general_channel) = << >>

C3_Witness ==
    /\ last.event = Minecraft(JoinSteveLine)
    /\ Completed
    /\ "Steve" \notin last.before

\* the case of C4: Alice then Bob were inserted, nothing else, and a user's
\* "!online" has been answered
C4_Case ==
    /\ last.event.type = "Discord" /\ last.event.author # "mc-sync"
    /\ Trim(last.event.content) = "!online"
    /\ Completed
    /\ last.before = {"Alice", "Bob"}
    /\ inserted = <<"Alice", "Bob">>

\* C4 as stated: the reply is always "2 online: Alice, Bob".
C4_Original ==
    C4_Case => Sent(last.done)[1][2] = "2 online: Alice, Bob"

\* C4 amended: the reply is "2 online: Alice, Bob" or "2 online: Bob,
\* Alice": the names come in the iteration order of the HashSet, which need
\* not be the insertion order.
C4_EitherOrder ==
    C4_Case =>
        /\ Len(Sent(last.done)) = 1
        /\ Sent(last.done)[1][2]
             \in {"2 online: Alice, Bob", "2 online: Bob, Alice"}

C4_Witness == C4_Case /\ Sent(last.done)[1][2] = "2 online: Bob, Alice"

\* C5: for a chat message of another author whose trimmed body is
\* "!online", the router performs no step but one send, to the channel of
\* the message, of "<count> online: <names>", count being the size of the
\* presence set and names its elements, each once, separated by ", "
\* ("0 online: " for the empty set); the presence set is unchanged.
C5_OnlineCommand ==
    (/\ last.event.type = "Discord" /\ last.event.author # "mc-sync"
     /\ Trim(last.event.content) = "!online") =>
        /\ online = last.before
        /\ ~Completed => last.done = << >>
        /\ Sinks("child_stdin") = {""} /\ Sinks("stdout") = {""}
        /\ Completed =>
             /\ Len(last.done) = 1
             /\ last.done[1].op = "send"
             /\ last.done[1].channel = last.event.channel_id
             /\ \E names \in Iter(last.before) :
                   last.done[1].text =
                       DisplayUsize(Cardinality(last.before)) \o " online: "
                       \o JoinWith(names, ", ")
             /\ last.before = {} => last.done[1].text = "0 online: "
             /\ last.before = {"Alice"} => last.done[1].text = "1 online: Alice"

C5_Witness ==
    /\ last.event.type = "Discord" /\ last.event.author # "mc-sync"
    /\ Trim(last.event.content) = "!online"
    /\ last.event.channel_id \notin {general_channel, server_channel}
    /\ Completed
    /\ Cardinality(last.before) = 2

\* C6: for a chat message of another author whose trimmed body is not
\* "!online", nothing is sent to chat, nothing is written to the console
\* and the presence set is unchanged; subprocess stdin has received,
\* flushed, exactly "/say [<author>]: <body>" and a newline when the arm
\* has run to its end, which it has when the router takes the next event;
\* it has received a part of that text when the flush fails or
\* main() returns inside the arm.
C6_Forward ==
    (/\ last.event.type = "Discord" /\ last.event.author # "mc-sync"
     /\ Trim(last.event.content) # "!online") =>
        /\ Sent(last.done) = << >>
        /\ \A i \in 1..Len(last.done) : last.done[i].to = "child_stdin"
        /\ online = last.before
        /\ Sinks("stdout") = {""}
        /\ Sinks("child_stdin") \subseteq
             Cuts("/say [" \o last.event.author \o "]: "
                  \o last.event.content \o "\n")
        /\ Completed =>
             /\ Sinks("child_stdin") =
                  {"/say [" \o last.event.author \o "]: "
                   \o last.event.content \o "\n"}
             /\ last.event.content = "hi\nstop" /\ last.event.author = "Steve"
                  => Sinks("child_stdin") = {"/say [Steve]: hi\nstop\n"}

C6_Witness ==
    /\ last.event.type = "Discord" /\ last.event.author = "Steve"
    /\ last.event.content = "hi\nstop"
    /\ Completed
    /\ online # {}

\* C7: for a console line, whatever its text, nothing is sent to chat,
\* nothing is written to the console and the presence set is unchanged;
\* subprocess stdin has received, flushed, exactly the text and one
\* newline when the arm has run to its end, and a part of that when the
\* flush fails or main() returns inside the arm.
C7_Console ==
    last.event.type = "Stdin" =>
        /\ Sent(last.done) = << >>
        /\ \A i \in 1..Len(last.done) : last.done[i].to = "child_stdin"
        /\ online = last.before
        /\ Sinks("stdout") = {""}
        /\ Sinks("child_stdin") \subseteq Cuts(last.event.message \o "\n")
        /\ Completed =>
             Sinks("child_stdin") = {last.event.message \o "\n"}

C7_Witness ==
    /\ last.event = Stdin(QuitAliceLine)
    /\ Completed
    /\ "Alice" \in online

\* no name is twice in the presence set
NoDuplicates ==
    /\ \A i, j \in 1..Len(inserted) : i # j => inserted[i] # inserted[j]
    /\ Range(inserted) = online

\* C8: a line matching the join pattern with name n, once console echo and
\* server send are done, leaves n present; the count is one more when n
\* was absent, the set is the same when n was present; no name is twice in
\* the set.
C8_IdempotentJoin ==
    /\ NoDuplicates
    /\ (/\ last.event.type = "Minecraft"
        /\ Matches[last.event.message].join.matched
        /\ PastServerSend) =>
          LET n == Group(last.event.message,
                         Matches[last.event.message].join, 1)
          IN  /\ n \in online
              /\ n \in last.before => online = last.before
              /\ n \notin last.before =>
                   /\ Cardinality(online) = Cardinality(last.before) + 1
                   /\ last.before \subseteq online

C8_Witness ==
    /\ last.event = Minecraft(JoinAliceLine)
    /\ PastServerSend
    /\ last.before = {"Alice", "Bob"}

\* C9: a line classified as quit with name n, once console echo and server
\* send are done, leaves n absent and the other names as they were: the
\* count is one less when n was present, the set is the same when n was
\* absent; unless a call fails, "<n> left the server." is sent to general
\* in both cases.
C9_Quit ==
    (/\ last.event.type = "Minecraft"
     /\ Kind(last.event.message) = "quit"
     /\ PastServerSend) =>
        LET n == Group(last.event.message,
                       Matches[last.event.message].quit, 1)
        IN  /\ online = last.before \ {n}
            /\ n \in last.before =>
                 Cardinality(online) = Cardinality(last.before) - 1
            /\ n \notin last.before => online = last.before
            /\ Completed =>
                 SentTo(last.done, general_channel)
                   = << <<general_channel, n \o " left the server.">> >>

C9_Witness ==
    /\ last.event = Minecraft(QuitAliceLine)
    /\ Completed
    /\ last.before = {"Alice", "Bob"}

C9_WitnessAbsent ==
    /\ last.event = Minecraft(QuitAliceLine)
    /\ Completed
    /\ last.before = {"Bob"}

\* the text the claim gives for each classification
Notification(line) ==
    LET m == Matches[line] IN
    CASE Kind(line) = "join" ->
           << Group(line, m.join, 1) \o " joined the server!" >>
      [] Kind(line) = "quit" ->
           << Group(line, m.quit, 1) \o " left the server." >>
      [] Kind(line) = "achievement" ->
           << Group(line, m.achievement, 1) \o " unlocked achievement ["
              \o Group(line, m.achievement, 2) \o "]!" >>
      [] Kind(line) = "chat" ->
           << "[" \o Group(line, m.chat, 1) \o "]: "
              \o Group(line, m.chat, 2) >>
      [] OTHER -> << >>

\* C10: unless a call fails, a line classified as join, quit, achievement
\* or chat causes exactly one send to general, of "<name> joined the
\* server!", "<name> left the server.", "<name> unlocked achievement
\* [<achievement>]!" or "[<name>]: <body>"; an unrecognized line causes no
\* send to general and no change of presence.
C10_Notification ==
    (last.event.type = "Minecraft" /\ Completed) =>
        LET line == last.event.message IN
        /\ SentTo(last.done, general_channel)
             = [i \in 1..Len(Notification(line)) |->
                   <<general_channel, Notification(line)[i]>>]
        /\ Kind(line) = "unrecognized" => online = last.before
        /\ line = ChatLine =>
             SentTo(last.done, general_channel)
               = << <<general_channel, "[Steve]: hello world">> >>
        /\ line = AchievementLine =>
             SentTo(last.done, general_channel)
               = << <<general_channel, "Bob unlocked achievement [Stone Age]!">> >>

C10_Witness ==
    /\ last.event = Minecraft(ChatLine)
    /\ Completed
    /\ online # {}

\* the last dispatch performed a proper prefix of the steps of its arm, and
\* the call after that prefix is an output call
StoppedAtFailedCall ==
    \E names \in Iter(last.before) :
        LET steps == Steps(last.event, names)
            n == Len(last.done)
        IN  /\ n < Len(steps)
            /\ last.done = SubSeq(steps, 1, n)
            /\ last.todo = SubSeq(steps, n + 1, Len(steps))
            /\ Fallible(last.done, steps[n + 1])

\* when an output call fails during a dispatch, the router task ends with
\* the error: the steps after the failed call are not performed, and from
\* then on no event is received from the channel or enters it, no step is
\* performed, the presence set stays as it is and the router never runs
\* again
C11_RouterEnds ==
    /\ [](last.failed => task["main"] = "err" /\ StoppedAtFailedCall)
    /\ [](task["main"] = "err" => last.failed)
    /\ [][task["main"] = "err" =>
            /\ task'["main"] = "err"
            /\ last' = last
            /\ online' = online
            /\ rx' = rx
            /\ hist'.dispatched = hist.dispatched]_vars

\* C11: when an output call fails during a dispatch, the router task ends
\* with the error, the remaining steps of the event are not performed, no
\* later event is received, the call is not tried again, and the process
\* then ends.
C11_Fatal ==
    /\ C11_RouterEnds
    /\ (task["main"] = "err" ~> exited)

\* C12: the arrival numbers of the events the router has received are
\* 1, 2, 3, .. in this order, and the events still in the channel carry the
\* numbers that follow, in the order of the channel: what the router has
\* dispatched is a prefix of what entered the channel, nothing skipped,
\* duplicated or reordered.
C12_Fifo ==
    /\ hist.dispatched = [i \in 1..Len(hist.dispatched) |-> i]
    /\ Len(hist.tickets) = Len(rx)
    /\ hist.tickets = [i \in 1..Len(rx) |-> Len(hist.dispatched) + i]
    /\ hist.arrived = Len(hist.dispatched) + Len(rx)
    /\ last.event # NoEvent => Len(hist.dispatched) >= 1

\* two events of different producers were dispatched, a third one waits
C12_Witness ==
    /\ Len(hist.dispatched) = 2
    /\ last.event.type = "Stdin"
    /\ rx # << >>
    /\ Head(rx).type = "Minecraft"

\* the last part of C13: when main() has returned and the task that
\* finished first had failed, main() has returned the error of that task
C13_ReportsFirst ==
    (returned # "no" /\ task[hist.first] = "err") =>
        (returned = "err" /\ hist.reported = hist.first)

\* once a task has finished, main() eventually returns, and it does not
\* wait for the other tasks; what it returns is the result of a task that
\* has finished by then
C13_MainReturns ==
    /\ \A t \in Tasks : (task[t] # "running") ~> (returned # "no")
    /\ [](returned # "no" =>
            /\ hist.reported \in Tasks
            /\ task[hist.reported] # "running"
            /\ returned = task[hist.reported])
    /\ [](returned = "no" => hist.reported = "none")

\* C13: once a supervised task has finished, with Ok or with an error, the
\* process eventually ends.
C13_FateSharing ==
    \A t \in Tasks : (task[t] # "running") ~> exited

\* C14, as stated: in a run in which no output call has failed, no line of
\* the subprocess is left in the channel when main() has returned.
C14_Original ==
    (returned # "no" /\ task["main"] = "running") =>
        \A i \in 1..Len(rx) : rx[i].type # "Minecraft"

\* the k-th event that entered the channel is a line of the subprocess and
\* waits in the channel
Queued(k) ==
    \E i \in 1..Len(rx) : hist.tickets[i] = k /\ rx[i].type = "Minecraft"

\* the k-th event was dispatched last: echoed to the console and sent to
\* the server channel
Mirrored(k) ==
    /\ hist.dispatched # << >>
    /\ hist.dispatched[Len(hist.dispatched)] = k
    /\ last.event.type = "Minecraft"
    /\ Sinks("stdout") = {last.event.message \o "\n"}
    /\ SentTo(last.done, server_channel)
         = << <<server_channel, last.event.message>> >>

\* C14, amended: provided every output call of the router returns, a line
\* of the subprocess that has entered the channel is eventually echoed to
\* the console and sent to the server channel, unless an output call fails
\* or main() returns first.
C14_Mirror ==
    WF_vars(Return) =>
        \A k \in 1..MaxLive :
            Queued(k) ~> (Mirrored(k) \/ task["main"] # "running"
                                      \/ returned # "no")

\* the second line of the subprocess was mirrored after the first
C14_Witness ==
    /\ Mirrored(2)
    /\ Completed
    /\ returned = "no"

\* C15: when discord.start() returns, it is called again, and that is all
\* that happens: the channel, the suspended senders, the tasks, the
\* process, the presence set and the last dispatch stay as they are; the
\* next session can end as well, as long as main() and the discord task
\* run.
C15_Reconnect ==
    /\ [][sessions' # sessions =>
            /\ sessions' = sessions + 1
            /\ returned = "no" /\ returned' = "no"
            /\ ~exited /\ ~exited'
            /\ UNCHANGED <<rx, waiters, task, online, inserted, last, hist>>]_vars
    /\ []((returned = "no" /\ task["discord"] = "running" /\ inputs > 0)
            => ENABLED DiscordRestart)

\* the third session runs, with an event in the channel
C15_Witness ==
    /\ sessions = 3
    /\ returned = "no"
    /\ task = [t \in Tasks |-> "running"]
    /\ rx # << >>

\* the texts sent to general by the last dispatch
General == LET sent == SentTo(last.done, general_channel)
           IN  [i \in 1..Len(sent) |-> sent[i][2]]

\* C16: unless a call fails, the outcome of a line is that of the first of
\* join, quit, achievement, chat that matches it, whatever later pattern
\* matches too; a line that matches quit and chat removes the name and
\* sends "<name> left the server."; a line that matches none changes
\* nothing and sends nothing to general.
C16_Precedence ==
    (last.event.type = "Minecraft" /\ Completed) =>
        LET line == last.event.message
            m == Matches[line]
        IN  /\ m.join.matched =>
                 /\ General = << Group(line, m.join, 1) \o " joined the server!" >>
                 /\ online = last.before \cup {Group(line, m.join, 1)}
            /\ (~m.join.matched /\ m.quit.matched) =>
                 /\ General = << Group(line, m.quit, 1) \o " left the server." >>
                 /\ online = last.before \ {Group(line, m.quit, 1)}
            /\ (~m.join.matched /\ ~m.quit.matched /\ m.achievement.matched) =>
                 /\ General = << Group(line, m.achievement, 1)
                                 \o " unlocked achievement ["
                                 \o Group(line, m.achievement, 2) \o "]!" >>
                 /\ online = last.before
            /\ (~m.join.matched /\ ~m.quit.matched /\ ~m.achievement.matched
                  /\ m.chat.matched) =>
                 /\ General = << "[" \o Group(line, m.chat, 1) \o "]: "
                                 \o Group(line, m.chat, 2) >>
                 /\ online = last.before
            /\ (~m.join.matched /\ ~m.quit.matched /\ ~m.achievement.matched
                  /\ ~m.chat.matched) =>
                 /\ General = << >>
                 /\ online = last.before
            /\ line = ChatQuitLine =>
                 /\ m.quit.matched /\ m.chat.matched
                 /\ General = << "Alice left the server." >>
                 /\ online = last.before \ {"Alice"}

C16_Witness ==
    /\ last.event = Minecraft(ChatQuitLine)
    /\ Completed
    /\ "Alice" \in last.before
    /\ "Alice" \notin online

\* the steps of the console echo and of the server-channel send for a line
Echo(line) ==
    << Write("stdout", line), Write("stdout", "\n"), Flush("stdout"),
       Send(server_channel, line) >>

\* the presence set after the join or quit line, from the set before it
Updated(set, line) ==
    IF Kind(line) = "join"
    THEN set \cup {Group(line, Matches[line].join, 1)}
    ELSE set \ {Group(line, Matches[line].quit, 1)}

\* C17: the steps of a dispatched line are the console echo, then the send
\* to the server channel, then the presence update, then the send to
\* general.  For a join or quit line: when a call of the echo or the
\* server-channel send fails, the presence set is as before and nothing is
\* sent to general; when the send to general fails, the presence set is
\* updated all the same and stays so.
C17_StepOrder ==
    last.event.type = "Minecraft" =>
        LET line == last.event.message
            n == Len(last.done)
        IN  /\ SubSeq(last.done, 1, Min({n, 4})) = SubSeq(Echo(line), 1, Min({n, 4}))
            /\ n < 4 => (~Completed /\ online = last.before /\ General = << >>)
            /\ \A i \in 1..n : last.done[i].op \in {"insert", "remove"} => i = 5
            /\ \A i \in 1..n :
                 (last.done[i].op = "send" /\ last.done[i].channel = general_channel)
                    => i = n /\ i > 4
            /\ Kind(line) \in {"join", "quit"} =>
                 /\ n >= 4 => (n >= 5 /\ online = Updated(last.before, line))
                 /\ ~Completed => General = << >>
                 /\ Completed =>
                      (n = 6 /\ Len(General) = 1
                         /\ last.done[5].op \in {"insert", "remove"})

\* the send to general failed after the insertion of a new name
C17_Witness ==
    /\ last.event = Minecraft(JoinAliceLine)
    /\ last.failed
    /\ Len(last.done) = 5
    /\ "Alice" \notin last.before
    /\ "Alice" \in online
    /\ General = << >>

\* C18: the presence set starts empty; a step changes it only when the
\* router, in the arm of a line of the subprocess, comes back from the send
\* to the server channel and the line is a join line, which adds the
\* name, or a quit line, which removes it; so it is at all times
\* the set of names whose last classified join or quit line was a join.
C18_Presence ==
    /\ online = {}
    /\ [][online' # online =>
            /\ last.busy
            /\ Head(last.todo) = Send(server_channel, last.event.message)
            /\ last'.event = last.event
            /\ last.event.type = "Minecraft"
            /\ Kind(last.event.message) \in {"join", "quit"}
            /\ online' = Updated(online, last.event.message)]_vars
    /\ [](online = hist.recent)

\* a console line that reads like a quit line of Alice was dispatched, a
\* chat message is in the channel, and Alice is still online
C18_Witness ==
    /\ last.event = Stdin("[Server thread/INFO]: Alice left the game")
    /\ Completed
    /\ online = {"Alice"}
    /\ hist.recent = {"Alice"}
    /\ rx # << >>
    /\ Head(rx).type = "Discord"

\* C19, as stated: in a run in which no output call has failed, no
\* producer is left suspended with its event when main() has returned.
C19_Original ==
    (returned # "no" /\ task["main"] = "running") => Waiting = {}

\* C19, amended: the channel never holds more than Capacity events; a
\* call of send() suspends only when the channel has no room for its
\* event, behind the calls already suspended, and keeps the event until it
\* is appended to the channel or the send fails because the router has
\* ended; the channel changes only by an event appended or its oldest
\* event received; while main() runs and a producer is suspended, the
\* router or the first suspended call can take its next step; and provided
\* every output call of the router returns, the event of a suspended
\* producer eventually enters the channel unless the router ends or
\* main() returns first.
C19_Backpressure ==
    /\ [](Len(rx) <= Capacity)
    /\ [][\/ waiters' = waiters
          \/ /\ waiters # << >>
             /\ waiters' = Tail(waiters)
             /\ \/ rx' = Append(rx, Head(waiters).event)
                \/ task["main"] # "running" /\ rx' = rx
          \/ /\ Len(waiters') = Len(waiters) + 1
             /\ SubSeq(waiters', 1, Len(waiters)) = waiters
             /\ Len(rx) + Len(waiters) >= Capacity
             /\ rx' = rx]_vars
    /\ [][\/ rx' = rx
          \/ rx # << >> /\ rx' = Tail(rx)
          \/ Len(rx') = Len(rx) + 1 /\ SubSeq(rx', 1, Len(rx)) = rx]_vars
    /\ []((returned = "no" /\ waiters # << >>)
            => (ENABLED Recv \/ ENABLED Return \/ ENABLED Unblock))
    /\ WF_vars(Return) =>
         \A p \in Producers :
            (p \in Waiting) ~> (p \notin Waiting \/ returned # "no")

\* a suspended send has completed, the channel is full again and a call of
\* the handler is suspended
C19_Witness ==
    /\ hist.resumed >= 1
    /\ Len(rx) = Capacity
    /\ "discord" \in Waiting
    /\ returned = "no"
    /\ task["main"] = "running"

\* the positions of the line feeds in a text
LineFeeds(text) == {i \in 1..Len(text) : SubSeq(text, i, i) = "\n"}

\* C20: when a chat message of another author than "mc-sync", other than
\* the !online command, is dispatched and no call fails, subprocess stdin
\* receives exactly one line, which begins with "/say ": the text begins
\* with "/say " and its only line feed is its last character.
C20_OneCommand ==
    (/\ last.event.type = "Discord"
     /\ last.event.author # "mc-sync"
     /\ Trim(last.event.content) # "!online"
     /\ Completed) =>
        \A got \in Sinks("child_stdin") :
            /\ Len(got) > 5
            /\ SubSeq(got, 1, 5) = "/say "
            /\ LineFeeds(got) = {Len(got)}
====
